---- MODULE Spec2Model ----
(***************************************************************************)
(* A model of src/tasksB.py: the path guard B12, the directory ensurer     *)
(* create_directory_if_not_exists and the operations B3, B5, B6, B7, B9    *)
(* and B10, run one call at a time against a POSIX filesystem.             *)
(*                                                                         *)
(* A Python str is a sequence of one-character strings.  A filesystem      *)
(* location is the sequence of the names on the way from "/" to it.        *)
(***************************************************************************)
EXTENDS Integers, Sequences, FiniteSets, TLC

VARIABLES
    dirs,     \* the directories that exist (locations); "/" is <<>>
    files,    \* the regular files that exist: location -> contents
    conns,    \* the database connections that are open
    last,     \* the last call: operation, arguments, outcome, I/O done, log
    ncalls,   \* number of calls made so far
    gin,      \* guard harness: the value handed to B12
    gout      \* guard harness: what B12 did with it

vars == <<dirs, files, conns, last, ncalls, gin, gout>>

(***************************************************************************)
(* Strings                                                                 *)
(***************************************************************************)
sep == "/"
dot == <<".">>
dotdot == <<".", ".">>
empty == <<>>

\* the literal '/data' of B12
DataPrefix == <<"/", "d", "a", "t", "a">>

\* str.startswith
StartsWith(s, p) == Len(s) >= Len(p) /\ SubSeq(s, 1, Len(p)) = p

\* str.endswith
EndsWith(s, p) == Len(s) >= Len(p) /\ SubSeq(s, Len(s) - Len(p) + 1, Len(s)) = p

\* str.split('/')
RECURSIVE Split(_)
Split(s) ==
    IF \A i \in 1..Len(s) : s[i] # sep
    THEN <<s>>
    ELSE LET i == CHOOSE k \in 1..Len(s) :
                      s[k] = sep /\ \A j \in 1..(k - 1) : s[j] # sep
         IN  <<SubSeq(s, 1, i - 1)>> \o Split(SubSeq(s, i + 1, Len(s)))

\* '/'.join(comps)
RECURSIVE Join(_)
Join(comps) ==
    IF comps = <<>> THEN <<>>
    ELSE IF Len(comps) = 1 THEN comps[1]
    ELSE comps[1] \o <<sep>> \o Join(Tail(comps))

\* str.rfind('/') + 1
RFindSep1(s) ==
    IF \A i \in 1..Len(s) : s[i] # sep THEN 0
    ELSE CHOOSE k \in 1..Len(s) :
             s[k] = sep /\ \A j \in (k + 1)..Len(s) : s[j] # sep

\* str.rstrip('/')
RECURSIVE RStripSep(_)
RStripSep(s) ==
    IF s # <<>> /\ s[Len(s)] = sep THEN RStripSep(SubSeq(s, 1, Len(s) - 1)) ELSE s

AllSep(s) == \A i \in 1..Len(s) : s[i] = sep

(***************************************************************************)
(* posixpath                                                               *)
(***************************************************************************)
\* the loop of posixpath.normpath over comps[i..], new_comps so far in new
RECURSIVE NormComps(_, _, _, _)
NormComps(comps, i, new, initial_slashes) ==
    IF i > Len(comps) THEN new
    ELSE LET comp == comps[i] IN
         IF comp = empty \/ comp = dot
         THEN NormComps(comps, i + 1, new, initial_slashes)
         ELSE IF \/ comp # dotdot
                 \/ (initial_slashes = 0 /\ new = <<>>)
                 \/ (new # <<>> /\ new[Len(new)] = dotdot)
         THEN NormComps(comps, i + 1, Append(new, comp), initial_slashes)
         ELSE IF new # <<>>
         THEN NormComps(comps, i + 1, SubSeq(new, 1, Len(new) - 1), initial_slashes)
         ELSE NormComps(comps, i + 1, new, initial_slashes)

\* os.path.normpath on a str
normpath(path) ==
    IF path = <<>> THEN dot
    ELSE LET initial_slashes ==
                 IF ~StartsWith(path, <<sep>>) THEN 0
                 ELSE IF StartsWith(path, <<sep, sep>>)
                         /\ ~StartsWith(path, <<sep, sep, sep>>) THEN 2
                 ELSE 1
             comps  == NormComps(Split(path), 1, <<>>, initial_slashes)
             joined == Join(comps)
             res    == IF initial_slashes = 2 THEN <<sep, sep>> \o joined
                       ELSE IF initial_slashes = 1 THEN <<sep>> \o joined
                       ELSE joined
         IN  IF res = <<>> THEN dot ELSE res

\* os.path.split: <<head, tail>>
pathsplit(p) ==
    LET i    == RFindSep1(p)
        head == SubSeq(p, 1, i)
        tail == SubSeq(p, i + 1, Len(p))
    IN  <<IF head # <<>> /\ ~AllSep(head) THEN RStripSep(head) ELSE head, tail>>

\* os.path.dirname
dirname(p) == pathsplit(p)[1]

(***************************************************************************)
(* Python values handed to B12: a str, or something that is not a path     *)
(***************************************************************************)
PyStr(s) == [type |-> "str", val |-> s, num |-> 0]
PyInt(n) == [type |-> "int", val |-> <<>>, num |-> n]
PyNone   == [type |-> "none", val |-> <<>>, num |-> 0]

\* Python truthiness: `not filepath`
Truthy(v) == IF v.type = "str" THEN v.val # <<>> ELSE v.num # 0

\* what os.path.normpath does with a value: TypeError unless path-like
NormpathCall(v) ==
    IF v.type = "str" THEN [exc |-> "none", val |-> normpath(v.val)]
    ELSE [exc |-> "TypeError", val |-> <<>>]

(***************************************************************************)
(* B12                                                                     *)
(***************************************************************************)
\* B12Try with the normalisation left out: the prefix test on the raw path
B12TryRaw(filepath) ==
    IF filepath.type # "str" THEN [exc |-> "TypeError", ret |-> FALSE, log |-> <<>>]
    ELSE IF ~StartsWith(filepath.val, DataPrefix)
    THEN [exc |-> "none", ret |-> FALSE, log |-> <<"warning">>]
    ELSE [exc |-> "none", ret |-> TRUE, log |-> <<>>]

\* lines 39-45: the body of the try block
B12Try(filepath) ==
    LET n == NormpathCall(filepath) IN
    IF n.exc # "none" THEN [exc |-> n.exc, ret |-> FALSE, log |-> <<>>]
    ELSE IF ~StartsWith(n.val, DataPrefix)
    THEN [exc |-> "none", ret |-> FALSE, log |-> <<"warning">>]
    ELSE [exc |-> "none", ret |-> TRUE, log |-> <<>>]

\* lines 46-48: except Exception
B12Except(t) ==
    IF t.exc # "none" THEN [exc |-> "none", ret |-> FALSE, log |-> <<"error">>] ELSE t

\* the whole call: what it returns, what it raises, what it logs
B12Call(filepath) ==
    IF ~Truthy(filepath)
    THEN [exc |-> "none", ret |-> FALSE, log |-> <<"warning">>]
    ELSE B12Except(B12Try(filepath))

B12(filepath) == B12Call(PyStr(filepath)).ret
B12Log(filepath) == B12Call(PyStr(filepath)).log

(***************************************************************************)
(* The filesystem the calls run against (no symbolic links)                *)
(***************************************************************************)
Root == <<>>
Parent(loc) == IF loc = <<>> THEN <<>> ELSE SubSeq(loc, 1, Len(loc) - 1)
NoFiles == [l \in {} |-> <<>>]
SetFile(F, loc, c) == [l \in (DOMAIN F) \cup {loc} |-> IF l = loc THEN c ELSE F[l]]

\* an I/O step of a call: what was attempted, where, and the error it ended
\* with ("none": it took effect)
Ev(ev, loc, err) == [ev |-> ev, loc |-> loc, err |-> err, arg |-> 0]

\* the kernel's path walk over comps[i..] from cur: the location named, or errno
RECURSIVE Walk(_, _, _, _)
Walk(fs, comps, i, cur) ==
    IF i > Len(comps) THEN [err |-> "none", loc |-> cur]
    ELSE IF comps[i] = empty THEN Walk(fs, comps, i + 1, cur)
    ELSE IF cur \in DOMAIN fs.files THEN [err |-> "NotADirectoryError", loc |-> cur]
    ELSE IF cur \notin fs.dirs THEN [err |-> "FileNotFoundError", loc |-> cur]
    ELSE IF comps[i] = dot THEN Walk(fs, comps, i + 1, cur)
    ELSE IF comps[i] = dotdot THEN Walk(fs, comps, i + 1, Parent(cur))
    ELSE Walk(fs, comps, i + 1, Append(cur, comps[i]))

\* an absolute path (every path the guard lets through starts with '/')
Lookup(fs, path) == Walk(fs, Split(path), 1, Root)

\* os.path.exists, os.path.isdir
exists(fs, path) ==
    LET r == Lookup(fs, path)
    IN  r.err = "none" /\ (r.loc \in fs.dirs \/ r.loc \in DOMAIN fs.files)
isdir(fs, path) ==
    LET r == Lookup(fs, path) IN r.err = "none" /\ r.loc \in fs.dirs

\* os.mkdir; fault = "mkdir": the filesystem refuses to create directories
mkdir(fs, name, fault) ==
    LET r   == Lookup(fs, name)
        err == IF r.err # "none" THEN r.err
               ELSE IF r.loc \in fs.dirs \/ r.loc \in DOMAIN fs.files THEN "FileExistsError"
               ELSE IF fault = "mkdir" THEN "PermissionError"
               ELSE "none"
    IN  [exc |-> err,
         fs  |-> IF err = "none" THEN [fs EXCEPT !.dirs = @ \cup {r.loc}] ELSE fs,
         io  |-> <<Ev("mkdir", r.loc, err)>>]

\* os.makedirs(name, exist_ok=True)
RECURSIVE makedirs(_, _, _)
makedirs(fs, name, fault) ==
    LET s1   == pathsplit(name)
        s2   == IF s1[2] = <<>> THEN pathsplit(s1[1]) ELSE s1
        head == s2[1]
        tail == s2[2]
        \* try: mkdir(name, mode)
        \* except OSError: if not exist_ok or not path.isdir(name): raise
        Made(up, m) ==
            IF m.exc # "none" /\ isdir(up.fs, name)
            THEN [exc |-> "none", fs |-> up.fs, io |-> up.io]
            ELSE [exc |-> m.exc, fs |-> m.fs, io |-> up.io \o m.io]
        \* rec: the head was missing and makedirs(head) has run, leaving up
        After(rec, up) ==
            IF rec /\ up.exc \notin {"none", "FileExistsError"} THEN up
            ELSE IF rec /\ tail = dot THEN [up EXCEPT !.exc = "none"]
            ELSE Made(up, mkdir(up.fs, name, fault))
    IN  IF head # <<>> /\ tail # <<>> /\ ~exists(fs, head)
        THEN After(TRUE, makedirs(fs, head, fault))
        ELSE After(FALSE, [exc |-> "none", fs |-> fs, io |-> <<>>])

\* WriteText opening the file in mode 'a': the text lands after what was there
WriteTextAppend(fs, path, text, fault) ==
    LET r   == Lookup(fs, path)
        old == IF r.err = "none" /\ r.loc \in DOMAIN fs.files THEN fs.files[r.loc] ELSE <<>>
    IN
    IF r.err # "none" THEN [exc |-> r.err, fs |-> fs, io |-> <<Ev("open_w", r.loc, r.err)>>]
    ELSE IF r.loc \in fs.dirs
    THEN [exc |-> "IsADirectoryError", fs |-> fs,
          io |-> <<Ev("open_w", r.loc, "IsADirectoryError")>>]
    ELSE IF fault = "write"
    THEN [exc |-> "OSError",
          fs  |-> [fs EXCEPT !.files = SetFile(@, r.loc, old)],
          io  |-> <<Ev("open_w", r.loc, "none"), Ev("write", r.loc, "OSError")>>]
    ELSE [exc |-> "none",
          fs  |-> [fs EXCEPT !.files = SetFile(@, r.loc, old \o text)],
          io  |-> <<Ev("open_w", r.loc, "none"), Ev("write", r.loc, "none")>>]

\* with open(path, 'w', encoding='utf-8') as file: file.write(text)
\* fault = "write": the write fails after the file was created or truncated
WriteText(fs, path, text, fault) ==
    LET r == Lookup(fs, path) IN
    IF r.err # "none" THEN [exc |-> r.err, fs |-> fs, io |-> <<Ev("open_w", r.loc, r.err)>>]
    ELSE IF r.loc \in fs.dirs
    THEN [exc |-> "IsADirectoryError", fs |-> fs,
          io |-> <<Ev("open_w", r.loc, "IsADirectoryError")>>]
    ELSE IF fault = "write"
    THEN [exc |-> "OSError",
          fs  |-> [fs EXCEPT !.files = SetFile(@, r.loc, <<>>)],
          io  |-> <<Ev("open_w", r.loc, "none"), Ev("write", r.loc, "OSError")>>]
    ELSE [exc |-> "none",
          fs  |-> [fs EXCEPT !.files = SetFile(@, r.loc, text)],
          io  |-> <<Ev("open_w", r.loc, "none"), Ev("write", r.loc, "none")>>]

\* with open(path, 'r', encoding='utf-8') as file: file.read()
ReadText(fs, path) ==
    LET r   == Lookup(fs, path)
        err == IF r.err # "none" THEN r.err
               ELSE IF r.loc \in fs.dirs THEN "IsADirectoryError"
               ELSE IF r.loc \notin DOMAIN fs.files THEN "FileNotFoundError"
               ELSE "none"
    IN  [exc |-> err, text |-> IF err = "none" THEN fs.files[r.loc] ELSE <<>>,
         io |-> <<Ev("open_r", r.loc, err)>>]

(***************************************************************************)
(* create_directory_if_not_exists                                          *)
(***************************************************************************)
\* create_directory_if_not_exists calling os.mkdir(directory): no exist_ok, no parents
create_directory_mkdir(fs, filepath, fault) ==
    LET Made(m) == [exc |-> m.exc, fs |-> m.fs, io |-> m.io, log |-> <<>>]
        directory == dirname(filepath)
    IN  IF ~B12(filepath)
        THEN [exc |-> "SecurityError", fs |-> fs, io |-> <<>>, log |-> B12Log(filepath)]
        ELSE IF directory # <<>> THEN Made(mkdir(fs, directory, fault))
        ELSE [exc |-> "none", fs |-> fs, io |-> <<>>, log |-> <<>>]

create_directory_if_not_exists(fs, filepath, fault) ==
    LET Made(m) == [exc |-> m.exc, fs |-> m.fs, io |-> m.io, log |-> <<>>]
        directory == dirname(filepath)
    IN  IF ~B12(filepath)
        THEN [exc |-> "SecurityError", fs |-> fs, io |-> <<>>, log |-> B12Log(filepath)]
        ELSE IF directory # <<>> THEN Made(makedirs(fs, directory, fault))
        ELSE [exc |-> "none", fs |-> fs, io |-> <<>>, log |-> <<>>]

(***************************************************************************)
(* What every call yields: the exception it ends with ("none": it          *)
(* returns), the filesystem it leaves, the I/O steps it took, the log      *)
(* entries it emitted, and the step it ended at                            *)
(***************************************************************************)
Res(exc, fs, io, log, at) == [exc |-> exc, fs |-> fs, io |-> io, log |-> log, at |-> at]

\* LogAndReraise without the `raise`: the error is logged and the call returns
LogAndSwallow(t) ==
    IF t.exc # "none" THEN [t EXCEPT !.log = Append(@, "error"), !.exc = "none"] ELSE t

\* `except ...: logger.error(...); raise` around a try block
LogAndReraise(t) ==
    IF t.exc # "none" THEN [t EXCEPT !.log = Append(@, "error")] ELSE t

(***************************************************************************)
(* requests                                                                *)
(***************************************************************************)
B3Timeout == 30
B6Timeout == 30

\* the subclasses of requests.RequestException that a GET can end with
RequestExceptions == {"ConnectionError", "Timeout", "HTTPError"}

\* requests.get(url, timeout=t): net is what the network does with the request
requests_get(url, t, net) ==
    [exc |-> net.exc, status |-> net.status, text |-> net.text,
     io  |-> <<[ev |-> "http_get", loc |-> <<>>, err |-> net.exc, arg |-> t]>>]

\* raise_for_status raising for server errors alone
raise_for_status_5xx(response) ==
    IF 500 <= response.status /\ response.status < 600 THEN "HTTPError" ELSE "none"

\* Response.raise_for_status: HTTPError for 4xx and 5xx
raise_for_status(response) ==
    IF 400 <= response.status /\ response.status < 600 THEN "HTTPError" ELSE "none"

(***************************************************************************)
(* B3                                                                      *)
(***************************************************************************)
\* B3Try ensuring the directory before it fetches
B3TryMkdirFirst(fs, url, save_path, net, fault) ==
    LET Written(x, w) ==
            IF w.exc # "none" THEN Res(w.exc, w.fs, x \o w.io, <<>>, "write")
            ELSE Res("none", w.fs, x \o w.io, <<"info">>, "done")
        Checked(response, d, status) ==
            IF status # "none"
            THEN Res(status, d.fs,
                     d.io \o response.io \o <<Ev("raise_for_status", <<>>, status)>>,
                     <<>>, "status")
            ELSE Written(d.io \o response.io \o <<Ev("raise_for_status", <<>>, "none")>>,
                         WriteText(d.fs, save_path, response.text, fault))
        Fetched(d, response) ==
            IF response.exc # "none"
            THEN Res(response.exc, d.fs, d.io \o response.io, <<>>, "fetch")
            ELSE Checked(response, d, raise_for_status(response))
        Ensured(d) ==
            IF d.exc # "none" THEN Res(d.exc, d.fs, d.io, d.log, "mkdir")
            ELSE Fetched(d, requests_get(url, B3Timeout, net))
    IN  IF ~B12(save_path) THEN Res("SecurityError", fs, <<>>, B12Log(save_path), "guard")
        ELSE Ensured(create_directory_if_not_exists(fs, save_path, fault))

\* lines 70-85: the try block
B3Try(fs, url, save_path, net, fault) ==
    LET \* lines 82-85: the write, then the success log
        Written(x, d, w) ==
            IF w.exc # "none" THEN Res(w.exc, w.fs, x \o d.io \o w.io, <<>>, "write")
            ELSE Res("none", w.fs, x \o d.io \o w.io, <<"info">>, "done")
        \* line 79
        Ensured(response, x, d) ==
            IF d.exc # "none" THEN Res(d.exc, d.fs, x \o d.io, d.log, "mkdir")
            ELSE Written(x, d, WriteText(d.fs, save_path, response.text, fault))
        \* line 76
        Checked(response, status) ==
            IF status # "none"
            THEN Res(status, fs, response.io \o <<Ev("raise_for_status", <<>>, status)>>,
                     <<>>, "status")
            ELSE Ensured(response, response.io \o <<Ev("raise_for_status", <<>>, "none")>>,
                         create_directory_if_not_exists(fs, save_path, fault))
        \* line 75
        Fetched(response) ==
            IF response.exc # "none" THEN Res(response.exc, fs, response.io, <<>>, "fetch")
            ELSE Checked(response, raise_for_status(response))
    IN  \* lines 71-72
        IF ~B12(save_path) THEN Res("SecurityError", fs, <<>>, B12Log(save_path), "guard")
        ELSE Fetched(requests_get(url, B3Timeout, net))

\* lines 87-92: both handlers log an error and re-raise
B3(fs, url, save_path, net, fault) ==
    LogAndReraise(B3Try(fs, url, save_path, net, fault))

(***************************************************************************)
(* B6                                                                      *)
(***************************************************************************)
\* B6Try without the call of raise_for_status
B6TryNoStatus(fs, url, output_filename, net, fault) ==
    LET Written(x, d, w) ==
            IF w.exc # "none" THEN Res(w.exc, w.fs, x \o d.io \o w.io, <<>>, "write")
            ELSE Res("none", w.fs, x \o d.io \o w.io, <<"info">>, "done")
        Ensured(response, x, d) ==
            IF d.exc # "none" THEN Res(d.exc, d.fs, x \o d.io, d.log, "mkdir")
            ELSE Written(x, d, WriteText(d.fs, output_filename, response.text, fault))
        Fetched(response) ==
            IF response.exc # "none" THEN Res(response.exc, fs, response.io, <<>>, "fetch")
            ELSE Ensured(response, response.io,
                         create_directory_if_not_exists(fs, output_filename, fault))
    IN  IF ~B12(output_filename)
        THEN Res("SecurityError", fs, <<>>, B12Log(output_filename), "guard")
        ELSE Fetched(requests_get(url, B6Timeout, net))

\* lines 142-155: the try block
B6Try(fs, url, output_filename, net, fault) ==
    LET \* lines 152-155: the write, then the success log
        Written(x, d, w) ==
            IF w.exc # "none" THEN Res(w.exc, w.fs, x \o d.io \o w.io, <<>>, "write")
            ELSE Res("none", w.fs, x \o d.io \o w.io, <<"info">>, "done")
        \* line 150
        Ensured(response, x, d) ==
            IF d.exc # "none" THEN Res(d.exc, d.fs, x \o d.io, d.log, "mkdir")
            ELSE Written(x, d, WriteText(d.fs, output_filename, response.text, fault))
        \* line 148
        Checked(response, status) ==
            IF status # "none"
            THEN Res(status, fs, response.io \o <<Ev("raise_for_status", <<>>, status)>>,
                     <<>>, "status")
            ELSE Ensured(response, response.io \o <<Ev("raise_for_status", <<>>, "none")>>,
                         create_directory_if_not_exists(fs, output_filename, fault))
        \* line 147
        Fetched(response) ==
            IF response.exc # "none" THEN Res(response.exc, fs, response.io, <<>>, "fetch")
            ELSE Checked(response, raise_for_status(response))
    IN  \* lines 143-144
        IF ~B12(output_filename)
        THEN Res("SecurityError", fs, <<>>, B12Log(output_filename), "guard")
        ELSE Fetched(requests_get(url, B6Timeout, net))

\* lines 157-162
B6(fs, url, output_filename, net, fault) ==
    LogAndReraise(B6Try(fs, url, output_filename, net, fault))

(***************************************************************************)
(* sqlite3 / duckdb                                                        *)
(***************************************************************************)
DbSuffix == <<".", "d", "b">>

\* sqlite3.connect(db_path) / duckdb.connect(db_path): opens the database
\* file, creating an empty one when it is missing and its directory exists
connect(fs, db_path, engine) ==
    LET r == Lookup(fs, db_path) IN
    IF r.err # "none" \/ r.loc \in fs.dirs
    THEN [exc |-> "OperationalError", fs |-> fs, loc |-> r.loc,
          io |-> <<Ev("connect", r.loc, "OperationalError")>>]
    ELSE IF r.loc \in DOMAIN fs.files
    THEN [exc |-> "none", fs |-> fs, loc |-> r.loc, io |-> <<Ev("connect", r.loc, "none")>>]
    ELSE [exc |-> "none", fs |-> [fs EXCEPT !.files = SetFile(@, r.loc, <<>>)],
          loc |-> r.loc,
          io |-> <<Ev("create", r.loc, "none"), Ev("connect", r.loc, "none")>>]

\* str(result) of the fetched rows
Str(result) == <<"[">> \o result \o <<"]">>

(***************************************************************************)
(* B5: the result also carries the connections the call leaves open        *)
(***************************************************************************)
\* lines 116-126: the inner try block, run with an open connection;
\* db is what the engine does with the query: rows, or an error
B5Inner(fs, query, output_filename, db, fault) ==
    LET x == <<Ev("execute", <<>>, db.exc)>>
        \* lines 122-126
        Written(d, w) ==
            IF w.exc # "none" THEN Res(w.exc, w.fs, x \o d.io \o w.io, <<>>, "write")
            ELSE Res("none", w.fs, x \o d.io \o w.io, <<"info">>, "done")
        \* line 120
        Ensured(d) ==
            IF d.exc # "none" THEN Res(d.exc, d.fs, x \o d.io, d.log, "mkdir")
            ELSE Written(d, WriteText(d.fs, output_filename, Str(db.rows), fault))
    IN  \* lines 116-118
        IF db.exc # "none" THEN Res(db.exc, fs, x, <<>>, "query")
        ELSE Ensured(create_directory_if_not_exists(fs, output_filename, fault))

\* B5Finally as a close at the end of the try body: skipped when the body raises
B5CloseOnSuccess(t, loc) ==
    IF t.exc = "none"
    THEN [exc |-> t.exc, fs |-> t.fs, io |-> Append(t.io, Ev("close", loc, "none")),
          log |-> t.log, at |-> t.at, open |-> {}]
    ELSE [exc |-> t.exc, fs |-> t.fs, io |-> t.io, log |-> t.log, at |-> t.at,
          open |-> {loc}]

\* lines 127-128: finally: conn.close()
B5Finally(t, loc) ==
    [exc |-> t.exc, fs |-> t.fs, io |-> Append(t.io, Ev("close", loc, "none")),
     log |-> t.log, at |-> t.at, open |-> {}]

\* a call of B5 that ends before it has a connection
B5Early(exc, fs, io, log, at) ==
    [exc |-> exc, fs |-> fs, io |-> io, log |-> log, at |-> at, open |-> {}]

\* lines 105-128: the outer try block
B5Try(fs, db_path, query, output_filename, db, fault) ==
    LET is_sqlite == EndsWith(db_path, DbSuffix)
        \* lines 115-128: try ... finally, with the connection conn
        Scoped(conn, t) == B5Finally([t EXCEPT !.io = conn.io \o @], conn.loc)
        \* line 113
        Connected(conn) ==
            IF conn.exc # "none" THEN B5Early(conn.exc, fs, conn.io, <<>>, "connect")
            ELSE Scoped(conn, B5Inner(conn.fs, query, output_filename, db, fault))
    IN  \* lines 106-109
        IF ~B12(db_path) THEN B5Early("SecurityError", fs, <<>>, B12Log(db_path), "guard")
        ELSE IF ~B12(output_filename)
        THEN B5Early("SecurityError", fs, <<>>, B12Log(output_filename), "guard")
        ELSE Connected(connect(fs, db_path, IF is_sqlite THEN "sqlite3" ELSE "duckdb"))

\* lines 130-132
B5(fs, db_path, query, output_filename, db, fault) ==
    LogAndReraise(B5Try(fs, db_path, query, output_filename, db, fault))

(***************************************************************************)
(* B7                                                                      *)
(***************************************************************************)
\* Image.open(image_path): codec is what the decoder makes of the file
ImageOpen(fs, image_path, codec) ==
    LET Decoded(r) ==
            IF r.exc = "none" /\ codec = "undecodable"
            THEN [exc |-> "UnidentifiedImageError", text |-> <<>>,
                  io |-> <<Ev("open_r", r.io[1].loc, "UnidentifiedImageError")>>]
            ELSE r
    IN  Decoded(ReadText(fs, image_path))

\* the bytes img.save writes: the image, at the size asked for
Encode(img, resize) == IF resize # "None" THEN <<"img", "resized">> ELSE <<"img", "same">>

\* B7Try opening the image before it checks the output path
B7TryOpenFirst(fs, image_path, output_path, resize, codec, fault) ==
    LET Saved(x, d, w) ==
            IF w.exc # "none" THEN Res(w.exc, w.fs, x \o d.io \o w.io, <<>>, "write")
            ELSE Res("none", w.fs, x \o d.io \o w.io, <<"info">>, "done")
        Ensured(img, x, d) ==
            IF d.exc # "none" THEN Res(d.exc, d.fs, x \o d.io, d.log, "mkdir")
            ELSE Saved(x, d, WriteText(d.fs, output_path, Encode(img.text, resize), fault))
        Opened(img) ==
            IF img.exc # "none" THEN Res(img.exc, fs, img.io, <<>>, "open")
            ELSE IF ~B12(output_path)
            THEN Res("SecurityError", fs, img.io, B12Log(output_path), "guard")
            ELSE IF resize = "bad_size"
            THEN Res("ValueError", fs, img.io \o <<Ev("resize", <<>>, "ValueError")>>,
                     <<>>, "resize")
            ELSE Ensured(img, img.io, create_directory_if_not_exists(fs, output_path, fault))
    IN  IF ~B12(image_path)
        THEN Res("SecurityError", fs, <<>>, B12Log(image_path), "guard")
        ELSE Opened(ImageOpen(fs, image_path, codec))

\* lines 173-188: the try block
B7Try(fs, image_path, output_path, resize, codec, fault) ==
    LET \* line 186
        Saved(x, d, w) ==
            IF w.exc # "none" THEN Res(w.exc, w.fs, x \o d.io \o w.io, <<>>, "write")
            ELSE Res("none", w.fs, x \o d.io \o w.io, <<"info">>, "done")
        \* line 183
        Ensured(img, x, d) ==
            IF d.exc # "none" THEN Res(d.exc, d.fs, x \o d.io, d.log, "mkdir")
            ELSE Saved(x, d, WriteText(d.fs, output_path, Encode(img.text, resize), fault))
        \* lines 179-181
        Opened(img) ==
            IF img.exc # "none" THEN Res(img.exc, fs, img.io, <<>>, "open")
            ELSE IF resize = "bad_size"
            THEN Res("ValueError", fs, img.io \o <<Ev("resize", <<>>, "ValueError")>>,
                     <<>>, "resize")
            ELSE Ensured(img, img.io, create_directory_if_not_exists(fs, output_path, fault))
    IN  \* lines 174-177
        IF ~B12(image_path)
        THEN Res("SecurityError", fs, <<>>, B12Log(image_path), "guard")
        ELSE IF ~B12(output_path)
        THEN Res("SecurityError", fs, <<>>, B12Log(output_path), "guard")
        ELSE Opened(ImageOpen(fs, image_path, codec))

\* lines 190-192
B7(fs, image_path, output_path, resize, codec, fault) ==
    LogAndReraise(B7Try(fs, image_path, output_path, resize, codec, fault))

(***************************************************************************)
(* B9                                                                      *)
(***************************************************************************)
\* markdown.markdown(text): the text as a paragraph; nothing for no text
Markdown(text) == IF text = <<>> THEN <<>> ELSE <<"<p>">> \o text \o <<"</p>">>

\* lines 202-221: the try block
B9Try(fs, md_path, output_path, fault) ==
    LET \* lines 218-221
        Written(md, d, w) ==
            IF w.exc # "none" THEN Res(w.exc, w.fs, md.io \o d.io \o w.io, <<>>, "write")
            ELSE Res("none", w.fs, md.io \o d.io \o w.io, <<"info">>, "done")
        \* lines 213-215
        Ensured(md, d) ==
            IF d.exc # "none" THEN Res(d.exc, d.fs, md.io \o d.io, d.log, "mkdir")
            ELSE Written(md, d, WriteText(d.fs, output_path, Markdown(md.text), fault))
        \* lines 209-210
        Read(md) ==
            IF md.exc # "none" THEN Res(md.exc, fs, md.io, <<>>, "read")
            ELSE Ensured(md, create_directory_if_not_exists(fs, output_path, fault))
    IN  \* lines 203-206
        IF ~B12(md_path) THEN Res("SecurityError", fs, <<>>, B12Log(md_path), "guard")
        ELSE IF ~B12(output_path)
        THEN Res("SecurityError", fs, <<>>, B12Log(output_path), "guard")
        ELSE Read(ReadText(fs, md_path))

\* lines 223-225
B9(fs, md_path, output_path, fault) ==
    LogAndReraise(B9Try(fs, md_path, output_path, fault))

(***************************************************************************)
(* B10                                                                     *)
(***************************************************************************)
\* lines 238-244: the try block; csv is what pandas makes of the file and
\* of the column asked for
B10Try(fs, csv_path, filter_column, filter_value, csv) ==
    LET \* lines 242-244
        Loaded(r) ==
            IF r.exc # "none" THEN Res(r.exc, fs, r.io, <<>>, "load")
            ELSE IF csv = "malformed"
            THEN Res("ParserError", fs, <<Ev("open_r", r.io[1].loc, "ParserError")>>,
                     <<>>, "load")
            ELSE IF csv = "no_column"
            THEN Res("KeyError", fs, r.io \o <<Ev("filter", <<>>, "KeyError")>>, <<>>, "filter")
            ELSE Res("none", fs, r.io \o <<Ev("filter", <<>>, "none")>>, <<>>, "done")
    IN  \* lines 238-239
        IF ~B12(csv_path) THEN Res("SecurityError", fs, <<>>, B12Log(csv_path), "guard")
        ELSE Loaded(ReadText(fs, csv_path))

\* lines 245-247
B10(fs, csv_path, filter_column, filter_value, csv) ==
    LogAndReraise(B10Try(fs, csv_path, filter_column, filter_value, csv))

(***************************************************************************)
(* The calls a caller makes, and what the environment answers              *)
(***************************************************************************)
MaxCalls == 2      \* calls in a run
MaxPieces == 6     \* pieces in a path handed to the guard harness

P_etc   == <<"/", "e", "/", "f">>
P_trav  == <<"/", "d", "a", "t", "a", "/", ".", ".", "/", "e", "/", "f">>
P_f     == <<"/", "d", "a", "t", "a", "/", "f">>
P_sf    == <<"/", "d", "a", "t", "a", "/", "s", "/", "f">>
P_s     == <<"/", "d", "a", "t", "a", "/", "s">>
P_sib   == <<"/", "d", "a", "t", "a", "b", "/", "f">>
P_db    == <<"/", "d", "a", "t", "a", "/", "q", ".", "d", "b">>

\* destinations of the fetches and of the directory ensurer; destinations and
\* sources of the other operations
DstPaths == {P_etc, P_trav, P_f, P_sf, P_s, P_sib}
OutPaths == {P_etc, P_f, P_sf, P_sib}
SrcPaths == {P_etc, P_f, P_sf}
ImgPaths == {P_etc, P_f}
DbPaths  == {P_etc, P_f, P_db}
Urls     == {"u"}
Queries  == {"q"}

\* what the network does with a GET: a response, or no response
Net(exc, status, text) == [exc |-> exc, status |-> status, text |-> text]
NoNet == Net("none", 0, <<>>)
Nets == {Net("none", 200, <<"X">>), Net("none", 304, <<>>), Net("none", 404, <<"N">>),
         Net("Timeout", 0, <<>>)}

\* what the database engine does with a query
Dbs == {[exc |-> "none", rows |-> <<"1">>], [exc |-> "OperationalError", rows |-> <<>>]}

\* what the environment refuses: nothing, creating a directory, or
\* completing a write
Faults == {"none", "mkdir", "write"}
Codecs == {"ok", "undecodable"}
\* resize: None, a size, or a size Image.resize rejects (not positive)
Resizes == {"None", "size", "bad_size"}
Csvs   == {"ok", "malformed", "no_column"}

\* the values handed to the guard harness
Pieces == {<<"/">>, <<".">>, <<"d", "a", "t", "a">>, <<"b">>}
RECURSIVE PathsOf(_)
PathsOf(n) ==
    IF n = 0 THEN {<<>>}
    ELSE LET prev == PathsOf(n - 1) IN prev \cup {p \o q : p \in prev, q \in Pieces}
GuardInputs == {PyStr(p) : p \in PathsOf(MaxPieces)} \cup {PyInt(0), PyInt(1), PyNone}

FS == [dirs |-> dirs, files |-> files]

NoCall == [op |-> "none", src |-> <<>>, dst |-> <<>>, net |-> NoNet, exc |-> "none",
           io |-> <<>>, log |-> <<>>, at |-> "none",
           pre |-> [dirs |-> {Root}, files |-> NoFiles]]

\* before the first call: a filesystem holding "/" alone, no connection open
Init ==
    /\ dirs = {Root}
    /\ files = NoFiles
    /\ conns = {}
    /\ last = NoCall
    /\ ncalls = 0
    /\ gin = PyNone
    /\ gout = [done |-> FALSE, exc |-> "none", ret |-> FALSE, log |-> <<>>]

\* a call returned or raised: its effects and what is recorded of it
Done(op, src, dst, net, r) ==
    /\ dirs' = r.fs.dirs
    /\ files' = r.fs.files
    /\ last' = [op |-> op, src |-> src, dst |-> dst, net |-> net, exc |-> r.exc,
                io |-> r.io, log |-> r.log, at |-> r.at, pre |-> FS]
    /\ ncalls' = ncalls + 1
    /\ UNCHANGED <<gin, gout>>

CallCreateDir ==
    /\ ncalls < MaxCalls
    /\ \E p \in DstPaths, fault \in {"none", "mkdir"} :
           \E r \in {create_directory_if_not_exists(FS, p, fault)} :
               /\ Done("create_directory_if_not_exists", <<>>, p, NoNet,
                       Res(r.exc, r.fs, r.io, r.log,
                           IF r.exc = "SecurityError" THEN "guard"
                           ELSE IF r.exc = "none" THEN "done" ELSE "mkdir"))
               /\ UNCHANGED conns

CallB3 ==
    /\ ncalls < MaxCalls
    /\ \E url \in Urls, p \in DstPaths, net \in Nets, fault \in Faults :
           \E r \in {B3(FS, url, p, net, fault)} :
               /\ Done("B3", <<>>, p, net, r)
               /\ UNCHANGED conns

CallB5 ==
    /\ ncalls < MaxCalls
    /\ \E d \in DbPaths, q \in Queries, p \in OutPaths, db \in Dbs, fault \in Faults :
           \E r \in {B5(FS, d, q, p, db, fault)} :
               /\ Done("B5", d, p, NoNet, r)
               /\ conns' = conns \cup r.open

CallB6 ==
    /\ ncalls < MaxCalls
    /\ \E url \in Urls, p \in DstPaths, net \in Nets, fault \in Faults :
           \E r \in {B6(FS, url, p, net, fault)} :
               /\ Done("B6", <<>>, p, net, r)
               /\ UNCHANGED conns

CallB7 ==
    /\ ncalls < MaxCalls
    /\ \E i \in ImgPaths, p \in OutPaths, resize \in Resizes, codec \in Codecs,
          fault \in Faults :
           \E r \in {B7(FS, i, p, resize, codec, fault)} :
               /\ Done("B7", i, p, NoNet, r)
               /\ UNCHANGED conns

CallB9 ==
    /\ ncalls < MaxCalls
    /\ \E m \in SrcPaths, p \in OutPaths, fault \in Faults :
           \E r \in {B9(FS, m, p, fault)} :
               /\ Done("B9", m, p, NoNet, r)
               /\ UNCHANGED conns

CallB10 ==
    /\ ncalls < MaxCalls
    /\ \E c \in SrcPaths, csv \in Csvs :
           \E r \in {B10(FS, c, "col", "val", csv)} :
               /\ Done("B10", c, <<>>, NoNet, r)
               /\ UNCHANGED conns

Next == CallCreateDir \/ CallB3 \/ CallB5 \/ CallB6 \/ CallB7 \/ CallB9 \/ CallB10

Spec == Init /\ [][Next]_vars

(***************************************************************************)
(* The guard on its own: B12 applied to one value after another            *)
(***************************************************************************)
\* a value is handed to the guard
InitGuard ==
    /\ dirs = {Root}
    /\ files = NoFiles
    /\ conns = {}
    /\ last = NoCall
    /\ ncalls = 0
    /\ gin \in GuardInputs
    /\ gout = [done |-> FALSE, exc |-> "none", ret |-> FALSE, log |-> <<>>]

\* B12 runs on it
GuardCall ==
    /\ ~gout.done
    /\ \E r \in {B12Call(gin)} :
           gout' = [done |-> TRUE, exc |-> r.exc, ret |-> r.ret, log |-> r.log]
    /\ UNCHANGED <<dirs, files, conns, last, ncalls, gin>>

NextGuard == GuardCall

SpecGuard == InitGuard /\ [][NextGuard]_vars

(***************************************************************************)
(* Properties                                                              *)
(***************************************************************************)
DataName == <<"d", "a", "t", "a">>

\* the location is /data or lies below it
InsideData(loc) == loc # <<>> /\ loc[1] = DataName

\* the names of an absolute path with '.', '..' and empty names resolved
RECURSIVE LexNames(_)
LexNames(comps) ==
    IF comps = <<>> THEN <<>>
    ELSE LET front == LexNames(SubSeq(comps, 1, Len(comps) - 1))
             c     == comps[Len(comps)]
         IN  IF c = <<>> \/ c = <<".">> THEN front
             ELSE IF c = <<".", ".">>
             THEN IF front = <<>> THEN <<>> ELSE SubSeq(front, 1, Len(front) - 1)
             ELSE Append(front, c)

\* the path is absolute, does not start with exactly two slashes, and the
\* first name it resolves to starts with "data"
ResolvesUnderDataPrefix(p) ==
    /\ p # <<>> /\ p[1] = "/"
    /\ ~(Len(p) >= 2 /\ p[2] = "/" /\ (Len(p) = 2 \/ p[3] # "/"))
    /\ LexNames(Split(p)) # <<>>
    /\ StartsWith(LexNames(Split(p))[1], DataName)

Ops == {"B3", "B5", "B6", "B7", "B9", "B10"}
FsSteps == {"mkdir", "open_w", "write", "open_r", "create", "connect"}
Unchanged == dirs = last.pre.dirs /\ files = last.pre.files
Success(status) == 200 <= status /\ status < 300

\* the file the path names exists and holds exactly text
FileIs(fs, path, text) ==
    LET r == Lookup(fs, path)
    IN  r.err = "none" /\ r.loc \in DOMAIN fs.files /\ fs.files[r.loc] = text
FileAt(fs, path) ==
    LET r == Lookup(fs, path) IN r.err = "none" /\ r.loc \in DOMAIN fs.files

\* C1: B12 returns True exactly for a non-empty str whose normpath starts
\* with '/data' (that is: an absolute path, not one with exactly two leading
\* slashes, whose first resolved name starts with "data"); it returns False
\* for ""; and it raises for no value, a value normpath rejects included.
C1_GuardIffNormalizedPrefix ==
    gout.done =>
        /\ gout.exc = "none"
        /\ gout.ret = (/\ gin.type = "str"
                       /\ gin.val # <<>>
                       /\ StartsWith(normpath(gin.val), DataPrefix))
        /\ gout.ret = (gin.type = "str" /\ ResolvesUnderDataPrefix(gin.val))
        /\ (gin = PyStr(<<>>) => ~gout.ret)

\* an accepted path that is not in normal form
C1_Witness ==
    gout.done /\ gout.ret /\ gin.type = "str" /\ ~StartsWith(gin.val, DataPrefix)

\* C2: every file a call read or wrote and every directory it created lies
\* inside /data.
C2_ConfinedToData ==
    \A i \in 1..Len(last.io) :
        (last.io[i].ev \in FsSteps /\ last.io[i].err = "none") => InsideData(last.io[i].loc)

\* C3: B3, B5, B6, B7 and B9 called with a destination the guard rejects
\* raise SecurityError having done no I/O: no step taken, the filesystem as
\* it was, no connection open.
C3_RejectedDestinationNoIO ==
    (last.op \in {"B3", "B5", "B6", "B7", "B9"} /\ ~B12(last.dst)) =>
        /\ last.exc = "SecurityError"
        /\ last.io = <<>>
        /\ Unchanged
        /\ conns = {}

\* B7 with an existing image under /data and a rejected destination
C3_Witness ==
    /\ last.op = "B7" /\ ~B12(last.dst) /\ B12(last.src)
    /\ FileAt(last.pre, last.src)
    /\ last.exc = "SecurityError"

\* C4 as stated: a call that raises leaves the filesystem exactly as it was.
C4_AllOrNothing ==
    (last.op \in Ops /\ last.exc # "none") => Unchanged

\* C4 amended: a call that raises before its directory-creation step (at the
\* guard, the request, the status check, the connect, the source open, read
\* or load, the resize, the filter) leaves the filesystem exactly as it was;
\* B5 raising at the query leaves it as it was but for the empty database
\* file the connect may have created.
C4_UnchangedWhenFailingEarly ==
    (last.op \in Ops /\ last.exc # "none") =>
        /\ last.at \in {"guard", "fetch", "status", "connect", "open", "resize",
                        "read", "load", "filter"} => Unchanged
        /\ last.at = "query" =>
               /\ dirs = last.pre.dirs
               /\ DOMAIN last.pre.files \subseteq DOMAIN files
               /\ \A l \in DOMAIN files :
                      \/ l \in DOMAIN last.pre.files /\ files[l] = last.pre.files[l]
                      \/ l = Lookup(last.pre, last.src).loc /\ files[l] = <<>>
        /\ last.at \in {"guard", "fetch", "status", "connect", "open", "resize",
                        "read", "load", "filter", "query", "mkdir", "write"}

\* B3 raising at the status check with an accepted destination
C4_Witness ==
    last.op = "B3" /\ last.at = "status" /\ last.exc = "HTTPError" /\ B12(last.dst)

\* C5 as stated: B3 with an accepted destination and a response that is not
\* a success, or no response, raises the request error and changes nothing.
C5_NonSuccessAborts ==
    (/\ last.op = "B3" /\ B12(last.dst)
     /\ (last.net.exc # "none" \/ ~Success(last.net.status))) =>
        /\ last.exc \in RequestExceptions
        /\ Unchanged

\* C5 amended: B3 with an accepted destination and a 4xx or 5xx response, or
\* a failed or timed-out request, raises that request error having created
\* no directory and opened no file: the filesystem is as it was.
C5_ErrorStatusAborts ==
    (/\ last.op = "B3" /\ B12(last.dst)
     /\ (last.net.exc # "none" \/ (400 <= last.net.status /\ last.net.status < 600))) =>
        /\ last.exc = (IF last.net.exc # "none" THEN last.net.exc ELSE "HTTPError")
        /\ last.exc \in RequestExceptions
        /\ \A i \in 1..Len(last.io) : last.io[i].ev \notin {"mkdir", "open_w", "write"}
        /\ Unchanged

\* a 404 for a destination that already exists
C5_Witness ==
    /\ last.op = "B3" /\ B12(last.dst) /\ last.net.status = 404
    /\ FileAt(last.pre, last.dst)
    /\ last.exc = "HTTPError"

\* C6: no call of B5 leaves a connection open: a connection that was opened
\* is closed as the last step of the call, however the call ends.
C6_ConnectionClosed ==
    /\ conns = {}
    /\ last.op = "B5" =>
           \A i \in 1..Len(last.io) :
               /\ (last.io[i].ev = "connect" /\ last.io[i].err = "none") =>
                      /\ last.io[Len(last.io)].ev = "close"
                      /\ last.io[Len(last.io)].loc = last.io[i].loc
               /\ last.io[i].ev = "close" =>
                      \E j \in 1..(i - 1) :
                          last.io[j].ev = "connect" /\ last.io[j].err = "none"

\* B5 raising at the query, with the connection open
C6_Witness ==
    /\ last.op = "B5" /\ last.at = "query" /\ last.exc = "OperationalError"
    /\ \E i \in 1..Len(last.io) : last.io[i].ev = "close"

\* C7 as stated, on a filesystem that refuses no step: B3 with an accepted
\* destination and a success response of body X returns, the destination
\* holding exactly X.
C7_SuccessWrites ==
    (/\ last.op = "B3" /\ B12(last.dst)
     /\ last.net.exc = "none" /\ Success(last.net.status)
     /\ last.exc \notin {"PermissionError", "OSError"}) =>
        /\ last.exc = "none"
        /\ FileIs(FS, last.dst, last.net.text)

\* a proper ancestor of the path is a regular file
AncestorIsFile(fs, path) ==
    LET names == LexNames(Split(path))
    IN  \E k \in 1..(Len(names) - 1) : SubSeq(names, 1, k) \in DOMAIN fs.files

\* C7 amended: B3 with an accepted destination and a success response of
\* body X returns, the destination holding exactly X (whatever it held), when
\* the directory creation, the open and the write all succeed; it raises
\* when one of them fails: the destination is a directory, an ancestor of it
\* is a regular file, or the filesystem refuses the step.
C7_SuccessWritesUnlessStepFails ==
    (/\ last.op = "B3" /\ B12(last.dst)
     /\ last.net.exc = "none" /\ Success(last.net.status)) =>
        IF \A i \in 1..Len(last.io) : last.io[i].err = "none"
        THEN /\ last.exc = "none" /\ last.at = "done"
             /\ FileIs(FS, last.dst, last.net.text)
        ELSE /\ last.at \in {"mkdir", "write"}
             /\ \/ last.exc = "IsADirectoryError" /\ isdir(last.pre, last.dst)
                \/ /\ last.exc \in {"FileExistsError", "NotADirectoryError"}
                   /\ AncestorIsFile(last.pre, last.dst)
                \/ last.exc \in {"PermissionError", "OSError"}

\* B3 overwriting a destination that held something else
C7_Witness ==
    /\ last.op = "B3" /\ last.exc = "none" /\ Success(last.net.status)
    /\ FileAt(last.pre, last.dst)
    /\ ~FileIs(last.pre, last.dst, last.net.text)

\* the call r ended, took the steps and left the filesystem as the last call did
SameRun(r) ==
    /\ r.exc = last.exc
    /\ r.at = last.at
    /\ r.io = last.io
    /\ r.fs.dirs = dirs
    /\ r.fs.files = files

\* C8: B3 and B6 behave alike: whatever a call of one did (its steps, the
\* GET with timeout 30 among them, the filesystem it left, the way it
\* ended), the other does from the same filesystem with the same arguments
\* and the same response.
C8_B6SameAsB3 ==
    /\ last.op = "B3" =>
           \E url \in Urls, fault \in Faults :
               SameRun(B6(last.pre, url, last.dst, last.net, fault))
    /\ last.op = "B6" =>
           \E url \in Urls, fault \in Faults :
               SameRun(B3(last.pre, url, last.dst, last.net, fault))

\* B6 having fetched and written
C8_Witness ==
    /\ last.op = "B6" /\ last.exc = "none" /\ last.at = "done"
    /\ \E i \in 1..Len(last.io) : last.io[i].ev = "http_get" /\ last.io[i].arg = 30

\* the guard rejects a path the last call was given
RejectedArgument ==
    \/ last.op \in {"B3", "B6"} /\ ~B12(last.dst)
    \/ last.op \in {"B5", "B7", "B9"} /\ (~B12(last.src) \/ ~B12(last.dst))
    \/ last.op = "B10" /\ ~B12(last.src)

\* C9: no operation swallows a failure: a rejected path makes the call raise
\* SecurityError; a failed step is the last one the call takes (but for the
\* close of B5's connection) and the call raises that step's error; a call
\* that raises has logged an error last and no success; a call that returns
\* logged no error.
C9_NoFailureSwallowed ==
    last.op \in Ops =>
        /\ RejectedArgument => last.exc = "SecurityError"
        /\ \A i \in 1..Len(last.io) :
               last.io[i].err # "none" =>
                   /\ last.exc = last.io[i].err
                   /\ \/ i = Len(last.io)
                      \/ /\ last.op = "B5" /\ i = Len(last.io) - 1
                         /\ last.io[Len(last.io)].ev = "close"
        /\ last.exc # "none" =>
               /\ last.log # <<>>
               /\ last.log[Len(last.log)] = "error"
               /\ \A j \in 1..Len(last.log) : last.log[j] # "info"
        /\ last.exc = "none" =>
               /\ last.at = "done"
               /\ \A j \in 1..Len(last.log) : last.log[j] # "error"

\* B10 asked for a column the CSV lacks
C9_Witness ==
    last.op = "B10" /\ last.exc = "KeyError" /\ last.log = <<"error">>

\* the directories a call created
Created(io) == {i \in 1..Len(io) : io[i].ev = "mkdir" /\ io[i].err = "none"}

\* C10 as stated, on a filesystem that refuses no step: a second call of
\* create_directory_if_not_exists on the same path ends as the first and
\* leaves the filesystem the first left; for an accepted path it creates
\* nothing and raises nothing; for a rejected path both raise SecurityError
\* and create nothing.
C10_IdempotentNeverRaising ==
    last.op = "create_directory_if_not_exists" =>
        \A fault \in {"none"} :
            LET once  == create_directory_if_not_exists(last.pre, last.dst, fault)
                twice == create_directory_if_not_exists(once.fs, last.dst, fault)
            IN  /\ twice.exc = once.exc
                /\ twice.fs = once.fs
                /\ B12(last.dst) => (twice.exc = "none" /\ Created(twice.io) = {})
                /\ ~B12(last.dst) =>
                       /\ once.exc = "SecurityError" /\ twice.exc = "SecurityError"
                       /\ once.fs = last.pre

\* C10 amended: a second call ends as the first and leaves the filesystem
\* the first left; for an accepted path on which the first call returned it
\* creates nothing and raises nothing (when the first raised, an ancestor
\* being a file or directories being refused, the second raises the same);
\* for a rejected path both raise SecurityError and create nothing.
C10_Idempotent ==
    last.op = "create_directory_if_not_exists" =>
        \A fault \in {"none", "mkdir"} :
            LET once  == create_directory_if_not_exists(last.pre, last.dst, fault)
                twice == create_directory_if_not_exists(once.fs, last.dst, fault)
            IN  /\ twice.exc = once.exc
                /\ twice.fs = once.fs
                /\ Created(twice.io) = {}
                /\ (B12(last.dst) /\ once.exc = "none") => twice.exc = "none"
                /\ ~B12(last.dst) =>
                       /\ once.exc = "SecurityError" /\ twice.exc = "SecurityError"
                       /\ once.fs = last.pre

\* a first call that created directories for an accepted path
C10_Witness ==
    /\ last.op = "create_directory_if_not_exists" /\ B12(last.dst)
    /\ last.exc = "none"
    /\ dirs # last.pre.dirs

====
